---- MODULE Spec2Model ----
(***************************************************************************)
(* Model of async_utils: PrioritySemaphore (priority_sem.py) and the task  *)
(* caches taskcache / lrutaskcache (task_cache.py).                        *)
(*                                                                         *)
(* The event loop is cooperative: every action below is the code that runs *)
(* between two suspension points of one task or callback.                  *)
(***************************************************************************)
EXTENDS Integers, Sequences, FiniteSets, TLC

\* ------------------------------------------------------------------ bounds
\* Tasks are numbered in the order in which they call acquire.
NumTasks == 4
MaxPermits == 2
MaxPriority == 1
MaxTime == 1
NumLoops == 2

\* task cache: keys (numbered in the order of their first call), computations
\* started, largest ttl and maxsize
NumKeys == 3
MaxComputations == 3
MaxTtl == 1
MaxSize == 2

Tasks == 1..NumTasks
Priorities == 0..MaxPriority
Loops == 1..NumLoops
\* PrioritySemaphore._loop: asyncio.AbstractEventLoop | None = None
NoLoop == 0

VARIABLES
    initial,    \* the value the semaphore was constructed with
    value,      \* PrioritySemaphore._value
    waiters,    \* PrioritySemaphore._waiters, the heapq list (<<>> also for None)
    loop,       \* PrioritySemaphore._loop
    clock,      \* what loop.time() returned last
    pc,         \* where each task is
    prio,       \* local `priority` of each task inside __acquire
    taskLoop,   \* the event loop each task runs on
    futState    \* state of the future `fut` of each task inside __acquire, and
                \* of a cancelled future the heap may still hold

semVars == <<initial, value, waiters, loop, clock, pc, prio, taskLoop, futState>>

Keys == 1..NumKeys
Computations == 1..MaxComputations
\* ttl: float | None = None
NoTtl == -1
\* internal_cache.get(key) returning None
NoTask == 0
\* no call_later handle is pending for the task
NoTimer == -1

VARIABLES
    ttl,            \* the decorator's ttl
    maxsize,        \* lrutaskcache's maxsize
    internal_cache, \* taskcache's dict: key -> task, NoTask when absent
    lru_cache,      \* lrutaskcache's LRU: <<key, task>> entries, oldest first
    taskState,      \* state of each task made by asyncio.ensure_future
    taskKey,        \* the key each task was started for
    cbDue,          \* finished tasks whose done callback has not run yet
    timerLeft,      \* time left until the call_later handle armed for a task is due
    elapsed,        \* taskcache: time since a cached task reached a terminal state, up to ttl
    recency,        \* lrutaskcache: cached keys in the order of their last call, oldest first
    lastCall        \* what the call of the wrapped function made by the last step returned

cacheVars == <<ttl, maxsize, internal_cache, lru_cache, taskState, taskKey,
               cbDue, timerLeft, elapsed, recency, lastCall>>

\* nesting depth of priority_context scopes
MaxDepth == 2
\* callers awaiting the handles a wrapped function returned
NumCallers == 2

Callers == 1..NumCallers

VARIABLES
    priorityVar,    \* the ContextVar _priority in the context of each task
    tokens          \* the tokens of the priority_context scopes each task is in,
                    \* outermost first: a token holds the value it restores

ctxVars == <<priorityVar, tokens>>

VARIABLES
    awaits,         \* the handle each caller awaits, NoTask before its call
    callerState     \* where each caller is

callerVars == <<awaits, callerState>>

\* --------------------------------------------------------- PriorityWaiter
\* PriorityWaiter(priority, ts, future): a tuple compared on its first two items
PriorityWaiter(p, t, f) == [priority |-> p, ts |-> t, future |-> f]

\* variant of __lt__ that orders by arrival time alone
WaiterLtArrivalOnly(a, b) == a.ts < b.ts

\* PriorityWaiter.__lt__: self[:2] < other[:2]
WaiterLt(a, b) ==
    \/ a.priority < b.priority
    \/ a.priority = b.priority /\ a.ts < b.ts

\* ------------------------------------------------------------------ heapq
\* Sequences are 1-based: list position pos is index pos + 1, the parent of
\* index i is i \div 2 and its children are 2i and 2i + 1.
RECURSIVE SiftDown(_, _, _, _)
\* heapq._siftdown(heap, startpos, pos) with newitem carried along
SiftDown(heap, startidx, idx, newitem) ==
    IF idx > startidx /\ WaiterLt(newitem, heap[idx \div 2])
    THEN SiftDown([heap EXCEPT ![idx] = heap[idx \div 2]], startidx, idx \div 2, newitem)
    ELSE [heap EXCEPT ![idx] = newitem]

RECURSIVE SiftUpLoop(_, _, _)
\* the while loop of heapq._siftup: bubble the smaller child up until a leaf
SiftUpLoop(heap, idx, newitem) ==
    LET child == 2 * idx
        right == child + 1
        pick  == IF right <= Len(heap) /\ ~WaiterLt(heap[child], heap[right])
                 THEN right ELSE child
    IN  IF child <= Len(heap)
        THEN SiftUpLoop([heap EXCEPT ![idx] = heap[pick]], pick, newitem)
        ELSE SiftDown(heap, 1, idx, newitem)

\* heapq._siftup(heap, 0)
SiftUp(heap) == SiftUpLoop(heap, 1, heap[1])

\* heapq.heappush(heap, item)
HeapPush(heap, item) == SiftDown(Append(heap, item), 1, Len(heap) + 1, item)

\* heapq.heappop(heap): the item returned
HeapTop(heap) == heap[1]

\* heapq.heappop(heap): the heap left behind
HeapPop(heap) ==
    LET lastelt == heap[Len(heap)]
        rest    == SubSeq(heap, 1, Len(heap) - 1)
    IN  IF rest = <<>> THEN rest ELSE SiftUp([rest EXCEPT ![1] = lastelt])

\* ------------------------------------------------------ PrioritySemaphore
\* fut.done(): a result was set or the future was cancelled
FutDone(fs, f) == fs[f] \in {"result", "cancelled"}
\* fut.cancelled()
FutCancelled(fs, f) == fs[f] = "cancelled"

\* variant of __locked that only looks at the waiters
LockedWaitersOnly(v, h, fs) ==
    \E i \in 1..Len(h) : ~FutCancelled(fs, h[i].future)

\* PrioritySemaphore.__locked
Locked(v, h, fs) ==
    v = 0 \/ \E i \in 1..Len(h) : ~FutCancelled(fs, h[i].future)

RECURSIVE WakeLoopKeepsPermit(_, _, _)
\* variant of the first loop that resolves waiters without taking the permit
WakeLoopKeepsPermit(v, h, fs) ==
    IF v > 0 /\ h /= <<>>
    THEN LET next_waiter == h[1]
             f == next_waiter.future
         IN  IF fs[f] = "pending"
             THEN WakeLoopKeepsPermit(v, SubSeq(h, 2, Len(h)), [fs EXCEPT ![f] = "result"])
             ELSE WakeLoopKeepsPermit(v, SubSeq(h, 2, Len(h)), fs)
    ELSE [value |-> v, waiters |-> h, futState |-> fs]

RECURSIVE WakeLoopNoPermitCheck(_, _, _)
\* variant of the first loop that pops while there are waiters, permits or not
WakeLoopNoPermitCheck(v, h, fs) ==
    IF h /= <<>>
    THEN LET next_waiter == HeapTop(h)
             f == next_waiter.future
         IN  IF ~(FutDone(fs, f) \/ FutCancelled(fs, f))
             THEN WakeLoopNoPermitCheck(v - 1, HeapPop(h), [fs EXCEPT ![f] = "result"])
             ELSE WakeLoopNoPermitCheck(v, HeapPop(h), fs)
    ELSE [value |-> v, waiters |-> h, futState |-> fs]

RECURSIVE WakeLoopGrantsCancelled(_, _, _)
\* variant of the first loop that resolves every waiter it pops
WakeLoopGrantsCancelled(v, h, fs) ==
    IF v > 0 /\ h /= <<>>
    THEN WakeLoopGrantsCancelled(v - 1, HeapPop(h),
                                 [fs EXCEPT ![HeapTop(h).future] = "result"])
    ELSE [value |-> v, waiters |-> h, futState |-> fs]

RECURSIVE WakeLoop(_, _, _)
\* first loop of _maybe_wake: pop while there are permits, grant the live ones
WakeLoop(v, h, fs) ==
    IF v > 0 /\ h /= <<>>
    THEN LET next_waiter == HeapTop(h)
             f == next_waiter.future
         IN  IF ~(FutDone(fs, f) \/ FutCancelled(fs, f))
             THEN WakeLoop(v - 1, HeapPop(h), [fs EXCEPT ![f] = "result"])
             ELSE WakeLoop(v, HeapPop(h), fs)
    ELSE [value |-> v, waiters |-> h, futState |-> fs]

RECURSIVE CleanupLoop(_, _)
\* second loop of _maybe_wake: drop finished waiters from the top of the heap
CleanupLoop(h, fs) ==
    IF h /= <<>>
    THEN LET next_waiter == HeapTop(h)
             f == next_waiter.future
         IN  IF ~(FutDone(fs, f) \/ FutCancelled(fs, f))
             THEN HeapPush(HeapPop(h), next_waiter)
             ELSE CleanupLoop(HeapPop(h), fs)
    ELSE h

\* variant of _maybe_wake without its first loop: nobody is woken
MaybeWakeNoWake(v, h, fs) ==
    [value |-> v, waiters |-> CleanupLoop(h, fs), futState |-> fs]

\* PrioritySemaphore._maybe_wake
MaybeWake(v, h, fs) ==
    LET woken == WakeLoop(v, h, fs)
    IN  [woken EXCEPT !.waiters = CleanupLoop(woken.waiters, woken.futState)]

\* PrioritySemaphore._get_loop: the loop the semaphore is bound to afterwards
GetLoopBinding(bound, running) == IF bound = NoLoop THEN running ELSE bound

\* PrioritySemaphore._get_loop: whether it raises RuntimeError
GetLoopRaises(bound, running) == GetLoopBinding(bound, running) /= running

\* ----------------------------------------------------------------- actions
\* PrioritySemaphore(value) with at least one permit; with value = 0 and
\* paired acquire and release nobody is ever admitted
SemInit ==
    /\ initial \in 1..MaxPermits
    /\ value = initial
    /\ waiters = <<>>
    /\ loop = NoLoop
    /\ clock = 0
    /\ pc = [t \in Tasks |-> "idle"]
    /\ prio = [t \in Tasks |-> 0]
    /\ taskLoop = [t \in Tasks |-> 1]
    /\ futState = [t \in Tasks |-> "none"]

\* the same semaphore used by tasks of several event loops
LoopInit ==
    /\ initial \in 1..MaxPermits
    /\ value = initial
    /\ waiters = <<>>
    /\ loop = NoLoop
    /\ clock = 0
    /\ pc = [t \in Tasks |-> "idle"]
    /\ prio = [t \in Tasks |-> 0]
    /\ taskLoop \in [Tasks -> Loops]
    /\ futState = [t \in Tasks |-> "none"]

\* loop.time(): the monotonic clock returns its last value again or a later one
LoopTimes == {at \in clock..(clock + 1) : at <= MaxTime}

\* __aenter__ / __acquire up to its return or its suspension at `await waiter`,
\* called with priority p while loop.time() would return `at`
Acquire(t, p, at) ==
    /\ pc[t] = "idle"
    /\ \A u \in Tasks : u < t => pc[u] /= "idle"
    /\ at \in LoopTimes
    /\ IF ~Locked(value, waiters, futState)
       THEN /\ value' = value - 1
            /\ pc' = [pc EXCEPT ![t] = "holding"]
            /\ UNCHANGED <<waiters, loop, clock, prio, futState>>
       ELSE IF GetLoopRaises(loop, taskLoop[t])
       THEN /\ pc' = [pc EXCEPT ![t] = "error"]
            /\ UNCHANGED <<value, waiters, loop, clock, prio, futState>>
       ELSE /\ loop' = GetLoopBinding(loop, taskLoop[t])
            /\ futState' = [futState EXCEPT ![t] = "pending"]
            /\ prio' = [prio EXCEPT ![t] = p]
            /\ clock' = at
            /\ waiters' = HeapPush(waiters, PriorityWaiter(p, at, t))
            /\ pc' = [pc EXCEPT ![t] = "waiting"]
            /\ UNCHANGED value
    /\ UNCHANGED <<initial, taskLoop>>
    /\ UNCHANGED <<cacheVars, ctxVars, callerVars>>

\* Task.cancel() on a task suspended in __acquire: a pending future is
\* cancelled; with the result already set the task is flagged and
\* CancelledError is thrown into it when it resumes
Cancel(t) ==
    /\ pc[t] = "waiting"
    /\ pc' = [pc EXCEPT ![t] = "cancelling"]
    /\ futState' = [futState EXCEPT ![t] = IF @ = "pending" THEN "cancelled" ELSE @]
    /\ UNCHANGED <<initial, value, waiters, loop, clock, prio, taskLoop>>
    /\ UNCHANGED <<cacheVars, ctxVars, callerVars>>

\* __acquire from `await waiter` returning normally to its return
ResumeGranted(t) ==
    /\ pc[t] = "waiting"
    /\ futState[t] = "result"
    /\ LET after == MaybeWake(value, waiters, futState)
       IN  /\ value' = after.value
           /\ waiters' = after.waiters
           /\ futState' = [after.futState EXCEPT ![t] = "none"]
    /\ pc' = [pc EXCEPT ![t] = "holding"]
    /\ prio' = [prio EXCEPT ![t] = 0]
    /\ UNCHANGED <<initial, loop, clock, taskLoop>>
    /\ UNCHANGED <<cacheVars, ctxVars, callerVars>>

\* variant of the except block that returns a permit on every cancellation
ValueAfterCancelAlways(v, fs, f) == v + 1

\* variant of the except block that never returns the permit
ValueAfterCancelNever(v, fs, f) == v

\* permits after the `except asyncio.CancelledError` block of __acquire
ValueAfterCancel(v, fs, f) ==
    IF FutDone(fs, f) /\ ~FutCancelled(fs, f) THEN v + 1 ELSE v

\* __acquire from `await waiter` raising CancelledError to the re-raise
ResumeCancelled(t) ==
    /\ pc[t] = "cancelling"
    /\ LET after == MaybeWake(ValueAfterCancel(value, futState, t), waiters, futState)
       IN  /\ value' = after.value
           /\ waiters' = after.waiters
           /\ futState' = after.futState
    /\ pc' = [pc EXCEPT ![t] = "cancelled"]
    /\ prio' = [prio EXCEPT ![t] = 0]
    /\ UNCHANGED <<initial, loop, clock, taskLoop>>
    /\ UNCHANGED <<cacheVars, ctxVars, callerVars>>

\* variant of __release that returns the permit without waking anybody
ReleaseNoWake(t) ==
    /\ pc[t] = "holding"
    /\ value' = value + 1
    /\ pc' = [pc EXCEPT ![t] = "released"]
    /\ UNCHANGED <<initial, waiters, futState, loop, clock, prio, taskLoop>>
    /\ UNCHANGED <<cacheVars, ctxVars, callerVars>>

\* variant of __release that returns two permits
ReleaseAddsTwo(t) ==
    /\ pc[t] = "holding"
    /\ LET after == MaybeWake(value + 2, waiters, futState)
       IN  /\ value' = after.value
           /\ waiters' = after.waiters
           /\ futState' = after.futState
    /\ pc' = [pc EXCEPT ![t] = "released"]
    /\ UNCHANGED <<initial, loop, clock, prio, taskLoop>>
    /\ UNCHANGED <<cacheVars, ctxVars, callerVars>>

\* __aexit__ / __release
Release(t) ==
    /\ pc[t] = "holding"
    /\ LET after == MaybeWake(value + 1, waiters, futState)
       IN  /\ value' = after.value
           /\ waiters' = after.waiters
           /\ futState' = after.futState
    /\ pc' = [pc EXCEPT ![t] = "released"]
    /\ UNCHANGED <<initial, loop, clock, prio, taskLoop>>
    /\ UNCHANGED <<cacheVars, ctxVars, callerVars>>

SemNext ==
    \/ \E t \in Tasks, p \in Priorities, at \in 0..MaxTime : Acquire(t, p, at)
    \/ \E t \in Tasks : Cancel(t)
    \/ \E t \in Tasks : ResumeGranted(t)
    \/ \E t \in Tasks : ResumeCancelled(t)
    \/ \E t \in Tasks : Release(t)

\* ------------------------------------------------------------ LRU (lru.py)
\* keys held by the container
LruKeys(c) == {c[i].key : i \in 1..Len(c)}

\* the entries of the container without key k
LruWithout(c, k) == SelectSeq(c, LAMBDA e : e.key /= k)

\* LRU.get(key, None): the value returned, NoTask when absent
LruGetValue(c, k) ==
    IF k \in LruKeys(c)
    THEN c[CHOOSE i \in 1..Len(c) : c[i].key = k].task
    ELSE NoTask

\* LRU.get(key, None): the container afterwards, a hit is moved to the
\* most-recently-used end
LruGet(c, k) ==
    IF k \in LruKeys(c)
    THEN Append(LruWithout(c, k), [key |-> k, task |-> LruGetValue(c, k)])
    ELSE c

\* LRU.__setitem__(key, value): store as most recently used, then drop
\* the least recently used entry when over capacity
LruSet(c, k, v, size) ==
    LET stored == Append(LruWithout(c, k), [key |-> k, task |-> v])
    IN  IF Len(stored) > size THEN Tail(stored) ELSE stored

\* LRU.remove(key)
LruRemove(c, k) == LruWithout(c, k)

\* ------------------------------------------------------------- task caches
\* keys are numbered in the order of their first call
KeyInOrder(k) ==
    \A j \in Keys : j < k => \E i \in Computations : taskKey[i] = j

\* the task ensure_future creates next
NextTask == CHOOSE i \in Computations :
                taskState[i] = "none" /\ \A j \in Computations : j < i => taskState[j] /= "none"

\* task.done()
TaskIsDone(i) == taskState[i] \notin {"none", "pending", "cancelling"}

\* the handle a call of the wrapped function returned and whether the call
\* ran the factory
CallRecord(task, fresh) == [task |-> task, fresh |-> fresh]

\* the step taken last was not a call of the wrapped function
NoCall == [task |-> NoTask, fresh |-> FALSE]

\* variant of call_later that drops the delay
CallLaterNoDelay(delay) == 0

\* loop.call_later(delay, ...): the time left until the handle is due
CallLater(delay) == delay

\* state shared by both decorators before the first call
CacheStart ==
    /\ taskState = [i \in Computations |-> "none"]
    /\ taskKey = [i \in Computations |-> 0]
    /\ cbDue = {}
    /\ timerLeft = [i \in Computations |-> NoTimer]
    /\ elapsed = [i \in Computations |-> 0]
    /\ recency = <<>>
    /\ lastCall = NoCall
    /\ internal_cache = [k \in Keys |-> NoTask]
    /\ lru_cache = <<>>

\* no decorated function in the run
NoCache == ttl = NoTtl /\ maxsize = 1 /\ CacheStart

\* no semaphore in the run
NoSemaphore ==
    /\ initial = 0
    /\ value = 0
    /\ waiters = <<>>
    /\ loop = NoLoop
    /\ clock = 0
    /\ pc = [t \in Tasks |-> "idle"]
    /\ prio = [t \in Tasks |-> 0]
    /\ taskLoop = [t \in Tasks |-> 1]
    /\ futState = [t \in Tasks |-> "none"]

\* taskcache(ttl)(coro)
CacheInit ==
    /\ ttl \in {NoTtl} \cup 1..MaxTtl
    /\ maxsize = 1
    /\ CacheStart

\* lrutaskcache(ttl, maxsize)(coro)
LruInit ==
    /\ ttl \in {NoTtl} \cup 1..MaxTtl
    /\ maxsize \in 1..MaxSize
    /\ CacheStart

\* one unit of time passes on the loop's clock: armed timers get closer to
\* being due and the finished tasks held by taskcache get older (ages are
\* counted up to ttl)
CacheTick ==
    /\ ttl /= NoTtl
    /\ timerLeft' = [i \in Computations |->
                        IF timerLeft[i] > 0 THEN timerLeft[i] - 1 ELSE timerLeft[i]]
    /\ elapsed' = [i \in Computations |->
                      IF TaskIsDone(i) /\ internal_cache[taskKey[i]] = i /\ elapsed[i] < ttl
                      THEN elapsed[i] + 1 ELSE elapsed[i]]
    /\ lastCall' = NoCall
    /\ UNCHANGED <<ttl, maxsize, internal_cache, lru_cache, taskState, taskKey,
                   cbDue, recency>>
    /\ UNCHANGED <<semVars, ctxVars, callerVars>>

\* variant of taskcache's wrapped that starts the factory on every call
WrappedNoLookup(k) ==
    /\ KeyInOrder(k)
    /\ \E i \in Computations : taskState[i] = "none"
    /\ internal_cache' = [internal_cache EXCEPT ![k] = NextTask]
    /\ taskState' = [taskState EXCEPT ![NextTask] = "pending"]
    /\ taskKey' = [taskKey EXCEPT ![NextTask] = k]
    /\ lastCall' = CallRecord(NextTask, TRUE)
    /\ UNCHANGED <<ttl, maxsize, lru_cache, cbDue, timerLeft, elapsed, recency>>
    /\ UNCHANGED <<semVars, ctxVars, callerVars>>

\* variant of taskcache's wrapped that runs the factory again when the
\* cached task ended with an exception
WrappedRetryFailed(k) ==
    LET cached == internal_cache[k]
    IN  /\ KeyInOrder(k)
        /\ IF cached /= NoTask /\ taskState[cached] /= "exception"
           THEN /\ lastCall' = CallRecord(cached, FALSE)
                /\ UNCHANGED <<internal_cache, taskState, taskKey>>
           ELSE /\ \E i \in Computations : taskState[i] = "none"
                /\ internal_cache' = [internal_cache EXCEPT ![k] = NextTask]
                /\ taskState' = [taskState EXCEPT ![NextTask] = "pending"]
                /\ taskKey' = [taskKey EXCEPT ![NextTask] = k]
                /\ lastCall' = CallRecord(NextTask, TRUE)
        /\ UNCHANGED <<ttl, maxsize, lru_cache, cbDue, timerLeft, elapsed, recency>>
        /\ UNCHANGED <<semVars, ctxVars, callerVars>>

\* taskcache's wrapped(*args, **kwargs) with make_key(args, kwargs) = k
Wrapped(k) ==
    LET cached == internal_cache[k]
    IN  /\ KeyInOrder(k)
        /\ IF cached /= NoTask
           THEN /\ lastCall' = CallRecord(cached, FALSE)
                /\ UNCHANGED <<internal_cache, taskState, taskKey>>
           ELSE /\ \E i \in Computations : taskState[i] = "none"
                /\ internal_cache' = [internal_cache EXCEPT ![k] = NextTask]
                /\ taskState' = [taskState EXCEPT ![NextTask] = "pending"]
                /\ taskKey' = [taskKey EXCEPT ![NextTask] = k]
                /\ lastCall' = CallRecord(NextTask, TRUE)
        /\ UNCHANGED <<ttl, maxsize, lru_cache, cbDue, timerLeft, elapsed, recency>>
        /\ UNCHANGED <<semVars, ctxVars, callerVars>>

\* a task reaches a terminal state and its done callbacks are scheduled with
\* call_soon
TaskFinish(i, outcome) ==
    /\ taskState[i] = "pending"
    /\ taskState' = [taskState EXCEPT ![i] = outcome]
    /\ cbDue' = IF ttl /= NoTtl THEN cbDue \cup {i} ELSE cbDue
    /\ lastCall' = NoCall
    /\ UNCHANGED <<ttl, maxsize, internal_cache, lru_cache, taskKey,
                   timerLeft, elapsed, recency>>
    /\ UNCHANGED <<semVars, ctxVars, callerVars>>

\* the done callback of either decorator arms the removal timer:
\* call_after_ttl(task) in taskcache, _lru_evict(ttl, cache, key, task) in
\* lrutaskcache
DoneCallback(i) ==
    /\ i \in cbDue
    /\ cbDue' = cbDue \ {i}
    /\ timerLeft' = [timerLeft EXCEPT ![i] = CallLater(ttl)]
    /\ lastCall' = NoCall
    /\ UNCHANGED <<ttl, maxsize, internal_cache, lru_cache, taskState, taskKey,
                   elapsed, recency>>
    /\ UNCHANGED <<semVars, ctxVars, callerVars>>

\* the timer armed by the done callback of task i runs
\* internal_cache.pop(key, task)
TimerFire(i) ==
    /\ timerLeft[i] = 0
    /\ timerLeft' = [timerLeft EXCEPT ![i] = NoTimer]
    /\ internal_cache' = [internal_cache EXCEPT ![taskKey[i]] = NoTask]
    /\ lastCall' = NoCall
    /\ UNCHANGED <<ttl, maxsize, lru_cache, taskState, taskKey, cbDue,
                   elapsed, recency>>
    /\ UNCHANGED <<semVars, ctxVars, callerVars>>

\* the cached keys in the order of their last call, oldest first, after a
\* call with key k that leaves the cache as c
Touch(r, k, c) ==
    Append(SelectSeq(r, LAMBDA x : x /= k /\ x \in LruKeys(c)), k)

\* variant of lrutaskcache's wrapped in which a hit reads the entry without
\* going through LRU.get
LruWrappedNoTouch(k) ==
    LET cached == LruGetValue(lru_cache, k)
    IN  /\ KeyInOrder(k)
        /\ IF cached /= NoTask
           THEN /\ lastCall' = CallRecord(cached, FALSE)
                /\ UNCHANGED <<lru_cache, taskState, taskKey>>
           ELSE /\ \E i \in Computations : taskState[i] = "none"
                /\ lru_cache' = LruSet(lru_cache, k, NextTask, maxsize)
                /\ taskState' = [taskState EXCEPT ![NextTask] = "pending"]
                /\ taskKey' = [taskKey EXCEPT ![NextTask] = k]
                /\ lastCall' = CallRecord(NextTask, TRUE)
        /\ recency' = Touch(recency, k, lru_cache')
        /\ UNCHANGED <<ttl, maxsize, internal_cache, cbDue, timerLeft, elapsed>>
        /\ UNCHANGED <<semVars, ctxVars, callerVars>>

\* lrutaskcache's wrapped(*args, **kwargs) with make_key(args, kwargs) = k
LruWrapped(k) ==
    LET cached == LruGetValue(lru_cache, k)
    IN  /\ KeyInOrder(k)
        /\ IF cached /= NoTask
           THEN /\ lru_cache' = LruGet(lru_cache, k)
                /\ lastCall' = CallRecord(cached, FALSE)
                /\ UNCHANGED <<taskState, taskKey>>
           ELSE /\ \E i \in Computations : taskState[i] = "none"
                /\ lru_cache' = LruSet(LruGet(lru_cache, k), k, NextTask, maxsize)
                /\ taskState' = [taskState EXCEPT ![NextTask] = "pending"]
                /\ taskKey' = [taskKey EXCEPT ![NextTask] = k]
                /\ lastCall' = CallRecord(NextTask, TRUE)
        /\ recency' = Touch(recency, k, lru_cache')
        /\ UNCHANGED <<ttl, maxsize, internal_cache, cbDue, timerLeft, elapsed>>
        /\ UNCHANGED <<semVars, ctxVars, callerVars>>

\* the timer armed by _lru_evict for task i runs cache.remove(key)
LruTimerFire(i) ==
    /\ timerLeft[i] = 0
    /\ timerLeft' = [timerLeft EXCEPT ![i] = NoTimer]
    /\ lru_cache' = LruRemove(lru_cache, taskKey[i])
    /\ recency' = SelectSeq(recency, LAMBDA x : x /= taskKey[i])
    /\ lastCall' = NoCall
    /\ UNCHANGED <<ttl, maxsize, internal_cache, taskState, taskKey, cbDue,
                   elapsed>>
    /\ UNCHANGED <<semVars, ctxVars, callerVars>>

\* how a task ends: with a result or with an exception, CancelledError
\* included; the done callbacks of both decorators run for either
Outcomes == {"result", "exception"}

CacheNext ==
    \/ CacheTick
    \/ \E k \in Keys : Wrapped(k)
    \/ \E i \in Computations, o \in Outcomes : TaskFinish(i, o)
    \/ \E i \in Computations : DoneCallback(i)
    \/ \E i \in Computations : TimerFire(i)

LruNext ==
    \/ CacheTick
    \/ \E k \in Keys : LruWrapped(k)
    \/ \E i \in Computations, o \in Outcomes : TaskFinish(i, o)
    \/ \E i \in Computations : DoneCallback(i)
    \/ \E i \in Computations : LruTimerFire(i)

\* ------------------------------------------------- callers of the handle
\* `await f(*args)`: the caller suspends on the handle the call made by the
\* last step returned (callers are numbered in the order of their awaits)
AwaitHandle(c) ==
    /\ callerState[c] = "idle"
    /\ \A b \in Callers : b < c => callerState[b] /= "idle"
    /\ lastCall.task /= NoTask
    /\ awaits' = [awaits EXCEPT ![c] = lastCall.task]
    /\ callerState' = [callerState EXCEPT ![c] = "awaiting"]
    /\ UNCHANGED <<semVars, cacheVars, ctxVars>>

\* Task.cancel() on a caller suspended in `await task`: the future the
\* caller waits on is the task wrapped returned, and cancel() is passed on
\* to it
CancelCaller(c) ==
    /\ callerState[c] = "awaiting"
    /\ taskState[awaits[c]] \in {"pending", "cancelling"}
    /\ callerState' = [callerState EXCEPT ![c] = "cancelling"]
    /\ taskState' = [taskState EXCEPT ![awaits[c]] = "cancelling"]
    /\ lastCall' = NoCall
    /\ UNCHANGED <<ttl, maxsize, internal_cache, lru_cache, taskKey, cbDue,
                   timerLeft, elapsed, recency, awaits>>
    /\ UNCHANGED <<semVars, ctxVars>>

\* CancelledError is thrown into the coroutine of a task whose cancel() was
\* called; the factory does not catch it and the task ends cancelled
TaskCancelled(i) ==
    /\ taskState[i] = "cancelling"
    /\ taskState' = [taskState EXCEPT ![i] = "cancelled"]
    /\ cbDue' = IF ttl /= NoTtl THEN cbDue \cup {i} ELSE cbDue
    /\ lastCall' = NoCall
    /\ UNCHANGED <<ttl, maxsize, internal_cache, lru_cache, taskKey,
                   timerLeft, elapsed, recency>>
    /\ UNCHANGED <<semVars, ctxVars, callerVars>>

\* what `await task` gives a caller on which cancel() was not called
Observed(outcome) ==
    CASE outcome = "result" -> "saw_result"
      [] outcome = "exception" -> "saw_exception"
      [] outcome = "cancelled" -> "saw_cancelled"

\* the awaited task is done and its caller resumes: `await task` returns
\* the result or raises what the task ended with
CallerResume(c) ==
    /\ callerState[c] \in {"awaiting", "cancelling"}
    /\ TaskIsDone(awaits[c])
    /\ taskState[awaits[c]] /= "cancelling"
    /\ callerState' = [callerState EXCEPT ![c] =
                          IF @ = "cancelling" THEN "cancelled"
                          ELSE Observed(taskState[awaits[c]])]
    /\ lastCall' = NoCall
    /\ UNCHANGED <<ttl, maxsize, internal_cache, lru_cache, taskState, taskKey,
                   cbDue, timerLeft, elapsed, recency, awaits>>
    /\ UNCHANGED <<semVars, ctxVars>>

AwaitNext ==
    \/ CacheTick
    \/ \E k \in Keys : Wrapped(k)
    \/ \E i \in Computations, o \in Outcomes : TaskFinish(i, o)
    \/ \E i \in Computations : DoneCallback(i)
    \/ \E i \in Computations : TimerFire(i)
    \/ \E c \in Callers : AwaitHandle(c)
    \/ \E c \in Callers : CancelCaller(c)
    \/ \E i \in Computations : TaskCancelled(i)
    \/ \E c \in Callers : CallerResume(c)

\* ------------------------------------------------------ priority_context
\* the code of task t is running: the task is not suspended inside __acquire
Running(t) == pc[t] \notin {"waiting", "cancelling"}

\* entering `with priority_context(v)`: token = _priority.set(v).
\* Every task has a context of its own; the scopes of one task at a time
\* are followed.
PriorityContextEnter(t, v) ==
    /\ Running(t)
    /\ Len(tokens[t]) < MaxDepth
    /\ \A u \in Tasks : u /= t => tokens[u] = <<>>
    /\ tokens' = [tokens EXCEPT ![t] = Append(@, priorityVar[t])]
    /\ priorityVar' = [priorityVar EXCEPT ![t] = v]
    /\ UNCHANGED <<semVars, cacheVars, callerVars>>

\* variant of the exit that leaves the scope without _priority.reset(token)
PriorityContextExitNoReset(t) ==
    /\ Running(t)
    /\ tokens[t] /= <<>>
    /\ tokens' = [tokens EXCEPT ![t] = SubSeq(@, 1, Len(@) - 1)]
    /\ UNCHANGED priorityVar
    /\ UNCHANGED <<semVars, cacheVars, callerVars>>

\* leaving the innermost scope, by the end of the block, a return, an
\* exception or CancelledError: the finally block runs _priority.reset(token)
PriorityContextExit(t) ==
    /\ Running(t)
    /\ tokens[t] /= <<>>
    /\ priorityVar' = [priorityVar EXCEPT ![t] = tokens[t][Len(tokens[t])]]
    /\ tokens' = [tokens EXCEPT ![t] = SubSeq(@, 1, Len(@) - 1)]
    /\ UNCHANGED <<semVars, cacheVars, callerVars>>

\* __aenter__: prio = _priority.get(); await self.__acquire(prio), on a
\* loop whose time() keeps returning the same value
AEnter(t) == Acquire(t, priorityVar[t], clock)

ScopeNext ==
    \/ \E t \in Tasks, v \in Priorities : PriorityContextEnter(t, v)
    \/ \E t \in Tasks : PriorityContextExit(t)
    \/ \E t \in Tasks : AEnter(t)
    \/ \E t \in Tasks : Cancel(t)
    \/ \E t \in Tasks : ResumeGranted(t)
    \/ \E t \in Tasks : ResumeCancelled(t)
    \/ \E t \in Tasks : Release(t)

\* _priority = ContextVar("_priority", default=0) and no scope entered
NoScopes ==
    /\ priorityVar = [t \in Tasks |-> 0]
    /\ tokens = [t \in Tasks |-> <<>>]

\* nobody awaits a handle
NoCallers ==
    /\ awaits = [c \in Callers |-> NoTask]
    /\ callerState = [c \in Callers |-> "idle"]

vars == <<semVars, cacheVars, ctxVars, callerVars>>

Init == SemInit /\ NoCache /\ NoScopes /\ NoCallers

LoopsInit == LoopInit /\ NoCache /\ NoScopes /\ NoCallers

TaskCacheInit == CacheInit /\ NoSemaphore /\ NoScopes /\ NoCallers

LruTaskCacheInit == LruInit /\ NoSemaphore /\ NoScopes /\ NoCallers

\* one semaphore used from one event loop
Spec == Init /\ [][SemNext]_vars

\* what a step of ResumeGranted, ResumeCancelled or Release does to pc: a
\* task that is ready to resume, or that holds a permit, moves on
Progress ==
    \E t \in Tasks :
        \/ pc[t] = "waiting" /\ futState[t] = "result"
              /\ pc' = [pc EXCEPT ![t] = "holding"]
        \/ pc[t] = "cancelling" /\ pc' = [pc EXCEPT ![t] = "cancelled"]
        \/ pc[t] = "holding" /\ pc' = [pc EXCEPT ![t] = "released"]

\* the event loop keeps running the tasks that are ready, and a task that
\* holds a permit leaves its `async with` block: while such a step is
\* possible, one is eventually taken
Fairness == WF_pc(Progress)

\* one semaphore used from one event loop, under that scheduling
FairSpec == Init /\ [][SemNext]_vars /\ Fairness

\* one semaphore used from several event loops
LoopSpec == LoopsInit /\ [][SemNext]_vars

\* one function wrapped by taskcache
CacheSpec == TaskCacheInit /\ [][CacheNext]_vars

\* one function wrapped by lrutaskcache
LruSpec == LruTaskCacheInit /\ [][LruNext]_vars

\* one semaphore used by tasks that enter and leave priority_context scopes
ScopeSpec == Init /\ [][ScopeNext]_vars

\* one function wrapped by taskcache and the callers awaiting its handles
AwaitSpec == TaskCacheInit /\ [][AwaitNext]_vars

\* ------------------------------------------------------------- properties
Holders == {t \in Tasks : pc[t] = "holding"}
\* waiters whose future is pending: queued and live
Live == {t \in Tasks : futState[t] = "pending"}
\* waiters whose future this step resolves
Granted == {t \in Live : futState'[t] = "result"}
\* no task is inside __acquire or holds a permit
Quiescent == \A t \in Tasks : pc[t] \in {"idle", "released", "cancelled", "error"}

\* C1: the number of acquisitions granted and not yet released never
\* exceeds the number of permits the semaphore was created with.
C1_HoldersWithinPermits == Cardinality(Holders) <= initial

\* every permit is held while a waiter that lost a granted permit to a
\* cancellation is gone and another waiter is still queued
C1_Witness ==
    /\ initial >= 1
    /\ Cardinality(Holders) = initial
    /\ \E t \in Tasks : pc[t] = "cancelled" /\ futState[t] = "result"
    /\ Live /= {}

\* C2: a waiter that is granted a permit has the lowest priority value
\* among the waiters that were queued and live at that moment.
C2_GrantLowestPriority ==
    [][\A w \in Granted : \A u \in Live : prio[w] <= prio[u]]_vars

\* a waiter was granted ahead of a live waiter that queued before it with
\* a higher priority value
C2_Witness ==
    \E b, c \in Tasks :
        /\ c < b
        /\ futState[b] = "result"
        /\ futState[c] = "pending"
        /\ prio[b] < prio[c]

\* C3: among live waiters of equal priority permits are granted in the
\* order of the acquire calls (tasks are numbered in that order).
C3_FifoAmongEqualPriority ==
    [][\A w \in Granted : \A u \in Live :
          (prio[u] = prio[w] /\ futState'[u] = "pending") => w < u]_vars

\* C4: once every holder has released and no acquire is in progress the
\* permit counter is back at its initial value, whatever was cancelled.
C4_PermitsRestored == Quiescent => value = initial

\* everything is over, a queued acquire was cancelled before its grant and
\* a permit was held and released
C4_Witness ==
    /\ Quiescent
    /\ initial >= 1
    /\ \E t \in Tasks : pc[t] = "cancelled" /\ futState[t] = "cancelled"
    /\ \E t \in Tasks : pc[t] = "released"

\* C5: a waiter cancelled after its grant gives the permit back when it
\* resumes: it ends cancelled and never holds, the counter goes up by one,
\* and in the same step that permit goes to a live waiter if there is one.
C5_GrantedThenCancelledReturnsPermit ==
    [][\A t \in Tasks :
          (pc[t] = "cancelling" /\ futState[t] = "result" /\ pc'[t] /= pc[t]) =>
              /\ pc'[t] = "cancelled"
              /\ value' + Cardinality(Granted) = value + 1
              /\ Live /= {} => Granted /= {}]_vars

\* the only permit went to a waiter that was cancelled before resuming and
\* was handed on to another waiter that has not resumed yet
C5_Witness ==
    /\ initial = 1
    /\ Holders = {}
    /\ value = 0
    /\ \E t, u \in Tasks :
          /\ pc[t] = "cancelled" /\ futState[t] = "result"
          /\ pc[u] = "waiting" /\ futState[u] = "result"

\* C6: the semaphore is bound to the event loop of the first call made on
\* it (task 1 makes it) and every call from another loop fails.
C6_BoundToFirstLoop ==
    \A t \in Tasks :
        (pc[t] /= "idle" /\ taskLoop[t] /= taskLoop[1]) => pc[t] = "error"

PendingFor(k) == {i \in Computations : taskState[i] = "pending" /\ taskKey[i] = k}

\* the task most recently started for key k, NoTask when there is none
LatestFor(k) ==
    LET started == {i \in Computations : taskState[i] /= "none" /\ taskKey[i] = k}
    IN  IF started = {} THEN NoTask
        ELSE CHOOSE i \in started : \A j \in started : j <= i

\* the removal timer armed for task i has fired
TimerFired(i) ==
    ttl /= NoTtl /\ TaskIsDone(i) /\ i \notin cbDue /\ timerLeft[i] = NoTimer

\* this step is a call of the wrapped function with key k
IsCall(k) ==
    /\ lastCall'.task /= NoTask
    /\ lastCall' /= lastCall
    /\ taskKey'[lastCall'.task] = k

\* C7: with taskcache a call that finds an entry for its key returns that
\* same handle and does not start the factory; a pending computation stays
\* in the cache, so at most one computation per key is in progress.
C7_SingleFlight ==
    [][/\ \A k \in Keys :
             (IsCall(k) /\ internal_cache[k] /= NoTask) =>
                 /\ lastCall'.task = internal_cache[k]
                 /\ ~lastCall'.fresh
                 /\ taskState' = taskState
       /\ \A i \in Computations :
             taskState'[i] = "pending" => internal_cache'[taskKey'[i]] = i
       /\ \A k \in Keys : Cardinality(PendingFor(k)') <= 1]_vars

\* a call returned the handle of a computation still in progress, for a key
\* whose earlier entry had already expired
C7_Witness ==
    /\ lastCall.task /= NoTask
    /\ ~lastCall.fresh
    /\ taskState[lastCall.task] = "pending"
    /\ \E j \in Computations : TimerFired(j) /\ taskKey[j] = taskKey[lastCall.task]

\* this step is a call with key k made after the task last started for k
\* finished, under a ttl
IsCallAfterCompletion(k) ==
    /\ IsCall(k)
    /\ ttl /= NoTtl
    /\ LatestFor(k) /= NoTask
    /\ TaskIsDone(LatestFor(k))

\* C8 (as stated): with ttl = T and completion at t1, a call in [t1, t1+T)
\* returns the same handle without starting the factory and a call at or
\* after t1+T starts a fresh computation.
C8_FreshAtOrAfterDeadline ==
    [][\A k \in Keys :
          IsCallAfterCompletion(k) =>
              IF elapsed[LatestFor(k)] < ttl
              THEN lastCall'.task = LatestFor(k) /\ ~lastCall'.fresh
              ELSE lastCall'.fresh]_vars

\* C8 (amended): the timer is armed after completion and fires no earlier
\* than t1+T; a call in [t1, t1+T), like every call made before the timer
\* has fired, returns the same handle without starting the factory, and the
\* first call after it has fired starts a fresh computation, stored as the
\* new entry.
C8_FreshAfterTimerFired ==
    [][/\ \A i \in Computations :
             (timerLeft[i] /= NoTimer /\ timerLeft'[i] = NoTimer) => elapsed[i] >= ttl
       /\ \A i \in Computations : timerLeft'[i] /= NoTimer => TaskIsDone(i)
       /\ \A k \in Keys :
             IsCallAfterCompletion(k) =>
                 /\ elapsed[LatestFor(k)] < ttl =>
                       lastCall'.task = LatestFor(k) /\ ~lastCall'.fresh
                 /\ ~TimerFired(LatestFor(k)) =>
                       lastCall'.task = LatestFor(k) /\ ~lastCall'.fresh
                 /\ TimerFired(LatestFor(k)) =>
                       /\ lastCall'.fresh
                       /\ lastCall'.task /= LatestFor(k)
                       /\ internal_cache'[k] = lastCall'.task]_vars

\* a call made after the timer of a finished computation fired started a
\* new computation, which is the entry of its key
C8_Witness ==
    /\ lastCall.task /= NoTask
    /\ lastCall.fresh
    /\ internal_cache[taskKey[lastCall.task]] = lastCall.task
    /\ \E j \in Computations :
          j < lastCall.task /\ taskKey[j] = taskKey[lastCall.task] /\ TimerFired(j)

\* task i is the entry stored under key k
LruHolds(k, i) == \E n \in 1..Len(lru_cache) : lru_cache[n] = [key |-> k, task |-> i]

\* C9: the timer of an entry that is no longer in the LRU cache leaves the
\* cache as it is when it fires.
C9_DetachedTimerIsNoOp ==
    [][\A i \in Computations :
          (timerLeft[i] /= NoTimer /\ timerLeft'[i] = NoTimer /\ ~LruHolds(taskKey[i], i))
              => lru_cache' = lru_cache]_vars

\* the cached key whose last call is the oldest
OldestCached == recency[1]

\* C10: lrutaskcache never holds more than maxsize entries; a call for a key
\* that is not cached starts a new computation, and when the cache is full
\* it replaces exactly the cached key whose last call is the oldest.
C10_LruEviction ==
    [][/\ Len(lru_cache') <= maxsize
       /\ \A k \in Keys :
             (IsCall(k) /\ k \notin LruKeys(lru_cache)) =>
                 /\ lastCall'.fresh
                 /\ taskState[lastCall'.task] = "none"
                 /\ \E n \in 1..Len(lru_cache') :
                       lru_cache'[n] = [key |-> k, task |-> lastCall'.task]
                 /\ LruKeys(lru_cache') =
                        IF Len(lru_cache) = maxsize
                        THEN (LruKeys(lru_cache) \ {OldestCached}) \cup {k}
                        ELSE LruKeys(lru_cache) \cup {k}]_vars

\* without a ttl, a key evicted while its computation was pending was called
\* again and a second computation for it is running next to the first
C10_Witness ==
    /\ ttl = NoTtl
    /\ Len(lru_cache) = maxsize
    /\ lastCall.task /= NoTask
    /\ lastCall.fresh
    /\ \E i \in Computations :
          /\ i < lastCall.task
          /\ taskKey[i] = taskKey[lastCall.task]
          /\ taskState[i] = "pending"
          /\ taskState[lastCall.task] = "pending"

\* C11: cancelling one caller that awaits a shared handle does not cancel
\* the computation: a caller on which cancel() was not called never sees
\* the computation end cancelled.
C11_CallerCancelIsLocal ==
    \A c \in Callers : callerState[c] /= "saw_cancelled"

\* the entry of key k is a task that ended with an exception
FailedEntry(k) ==
    internal_cache[k] /= NoTask /\ taskState[internal_cache[k]] = "exception"

\* C12: a failed computation stays memoized. While its entry is in the
\* cache a call with its key returns the same failed handle and runs
\* nothing; the entry leaves the cache only when its timer fires, at least
\* ttl after completion, and never without a ttl; and the factory is only
\* ever started by a call.
C12_FailureMemoized ==
    [][/\ \A k \in Keys :
             (IsCall(k) /\ FailedEntry(k)) =>
                 /\ lastCall'.task = internal_cache[k]
                 /\ ~lastCall'.fresh
                 /\ taskState' = taskState
                 /\ internal_cache' = internal_cache
       /\ \A k \in Keys :
             (FailedEntry(k) /\ internal_cache'[k] /= internal_cache[k]) =>
                 /\ ttl /= NoTtl
                 /\ elapsed[internal_cache[k]] >= ttl
                 /\ internal_cache'[k] = NoTask
       /\ \A i \in Computations :
             (taskState[i] = "none" /\ taskState'[i] /= "none") =>
                 lastCall' = CallRecord(i, TRUE)]_vars

\* a call returned the handle of a computation that had failed some time
\* before
C12_Witness ==
    /\ lastCall.task /= NoTask
    /\ ~lastCall.fresh
    /\ taskState[lastCall.task] = "exception"
    /\ elapsed[lastCall.task] >= 1

\* C13: leaving a priority_context scope, however it is left, restores the
\* ambient priority to the value it had just before the scope was entered;
\* nothing but entering and leaving a scope changes it; outside every scope
\* it is 0; and a queued acquire carries the ambient priority of the moment
\* of the acquire.
C13_ScopesRestorePriority ==
    [][\A t \in Tasks :
          /\ Len(tokens'[t]) > Len(tokens[t]) =>
                tokens'[t] = Append(tokens[t], priorityVar[t])
          /\ Len(tokens'[t]) < Len(tokens[t]) =>
                /\ tokens[t] = Append(tokens'[t], priorityVar'[t])
          /\ Len(tokens'[t]) = Len(tokens[t]) =>
                priorityVar'[t] = priorityVar[t] /\ tokens'[t] = tokens[t]
          /\ tokens'[t] = <<>> => priorityVar'[t] = 0
          /\ (pc[t] = "idle" /\ pc'[t] = "waiting") =>
                /\ prio'[t] = priorityVar[t]
                /\ \E n \in 1..Len(waiters') :
                      /\ waiters'[n].future = t
                      /\ waiters'[n].priority = priorityVar[t]]_vars

\* a task that queued inside a scope with a priority other than 0 was
\* cancelled there and is now outside every scope, at priority 0
C13_Witness ==
    \E t \in Tasks :
        /\ pc[t] = "cancelled"
        /\ tokens[t] = <<>>
        /\ priorityVar[t] = 0
        /\ \E n \in 1..Len(waiters) :
              waiters[n].future = t /\ waiters[n].priority /= 0

\* the heap holds a waiter whose future is still pending
LiveInHeap == \E n \in 1..Len(waiters) : futState[waiters[n].future] = "pending"

\* the heap holds the waiter of task t
InHeap(t) == \E n \in 1..Len(waiters) : waiters[n].future = t

\* C14: an acquire returns at once, taking one permit and leaving the heap
\* alone, exactly when permits > 0 and the heap holds no live waiter; in
\* every other case the caller is pushed onto the heap and suspended,
\* whatever its priority.
C14_FastPathIffFree ==
    [][\A t \in Tasks :
          (pc[t] = "idle" /\ pc'[t] /= "idle") =>
              IF value > 0 /\ ~LiveInHeap
              THEN /\ pc'[t] = "holding"
                   /\ value' = value - 1
                   /\ waiters' = waiters
                   /\ futState' = futState
              ELSE /\ pc'[t] = "waiting"
                   /\ value' = value
                   /\ futState' = [futState EXCEPT ![t] = "pending"]
                   /\ Len(waiters') = Len(waiters) + 1
                   /\ InHeap(t)'
                   /\ \A u \in Tasks : InHeap(u) => InHeap(u)']_vars

\* task 1 went straight through and holds; a later acquire found no permit
\* and queued behind a cancelled waiter that is still in the heap
C14_Witness ==
    /\ pc[1] = "holding"
    /\ value = 0
    /\ \E u, t \in Tasks :
          /\ u < t
          /\ futState[u] = "cancelled" /\ InHeap(u)
          /\ pc[t] = "waiting" /\ futState[t] = "pending" /\ InHeap(t)

\* C16: the permit counter is never negative.
C16_PermitsNonNegative == value >= 0

\* no permit is free while a waiter that was granted one and then cancelled
\* has not resumed yet, and another task has already released
C16_Witness ==
    /\ value = 0
    /\ \E t \in Tasks : pc[t] = "cancelling" /\ futState[t] = "result"
    /\ \E u \in Tasks : pc[u] = "released"

\* C15: single-flight also holds for lrutaskcache: for every key at most
\* one computation started for it is in progress at any time.
C15_SingleFlightBounded ==
    \A k \in Keys : Cardinality(PendingFor(k)) <= 1

\* C17: a release adds one permit and then grants at most one waiter:
\* exactly one, taking the permit again, when a live waiter is queued, and
\* none, leaving the counter incremented, when the heap is empty or holds
\* only cancelled waiters.
C17_OneGrantPerRelease ==
    [][\A t \in Tasks :
          (pc[t] = "holding" /\ pc'[t] = "released") =>
              /\ Cardinality(Granted) <= 1
              /\ \A w \in Granted : InHeap(w) /\ ~InHeap(w)'
              /\ IF LiveInHeap
                 THEN Cardinality(Granted) = 1 /\ value' = value
                 ELSE Granted = {} /\ value' = value + 1]_vars

\* nothing was cancelled, a task has released, and of two waiters that were
\* queued and live one was granted and the other is still pending
C17_Witness ==
    /\ \A t \in Tasks : pc[t] \notin {"cancelling", "cancelled"}
    /\ \E t \in Tasks : pc[t] = "released"
    /\ \E w, u \in Tasks :
          /\ pc[w] = "waiting" /\ futState[w] = "result"
          /\ pc[u] = "waiting" /\ futState[u] = "pending" /\ InHeap(u)

\* tasks that take a permit on the fast path in this step
FastPathTakers == {t \in Tasks : pc[t] = "idle" /\ pc'[t] = "holding"}

\* tasks that give a permit back in this step: by a release, or by resuming
\* with CancelledError after their grant
Returners ==
    {t \in Tasks : \/ pc[t] = "holding" /\ pc'[t] = "released"
                   \/ pc[t] = "cancelling" /\ futState[t] = "result" /\ pc'[t] = "cancelled"}

\* C18: cancelling a queued acquire that has not been granted changes
\* nothing but that waiter, at the cancellation and when the task resumes;
\* a cancelled waiter is never resolved, once popped it is never in the
\* heap again, and popping it has no effect on the permits: every change
\* of the counter is a fast-path acquire, a grant or a returned permit.
C18_CancelBeforeGrantFrame ==
    [][\A t \in Tasks :
          /\ (pc[t] = "waiting" /\ futState[t] = "pending" /\ pc'[t] = "cancelling") =>
                /\ value' = value
                /\ waiters' = waiters
                /\ futState' = [futState EXCEPT ![t] = "cancelled"]
                /\ \A u \in Tasks : u /= t => pc'[u] = pc[u]
          /\ (pc[t] = "cancelling" /\ futState[t] = "cancelled" /\ pc'[t] /= pc[t]) =>
                /\ pc'[t] = "cancelled"
                /\ value' = value
                /\ \A u \in Tasks : futState'[u] = futState[u]
                /\ \A u \in Tasks : u /= t => pc'[u] = pc[u]
          /\ futState[t] = "cancelled" => futState'[t] = "cancelled"
          /\ (futState[t] = "cancelled" /\ ~InHeap(t)) => ~InHeap(t)'
          /\ value' = value + Cardinality(Returners)
                            - Cardinality(Granted) - Cardinality(FastPathTakers)]_vars

\* a waiter cancelled before its grant was popped and discarded by a
\* release that granted the waiter behind it, before it resumed
C18_Witness ==
    \E t, u \in Tasks :
        /\ pc[t] = "cancelling" /\ futState[t] = "cancelled" /\ ~InHeap(t)
        /\ pc[u] = "waiting" /\ futState[u] = "result"
        /\ value = 0

\* C19: with at least one permit, finitely many acquires and every holder
\* releasing, a queued acquire that is not cancelled eventually returns
\* with a grant, also when other waiters are cancelled before or after
\* their grant.
C19_QueuedAcquireReturns ==
    \A t \in Tasks :
        (pc[t] = "waiting") ~> (pc[t] = "holding" \/ pc[t] = "cancelling")

\* one waiter was cancelled before its grant, another after its grant, and
\* a third has been granted the permit that came back
C19_Witness ==
    \E a, b, c \in Tasks :
        /\ pc[a] = "cancelled" /\ futState[a] = "cancelled"
        /\ pc[b] = "cancelled" /\ futState[b] = "result"
        /\ pc[c] = "waiting" /\ futState[c] = "result"

\* C20: no lost wake-up.  Between any two steps of the tasks, permits > 0
\* implies that the heap holds no live waiter, and the heap never holds a
\* waiter whose future was resolved by a grant.
C20_NoLostWakeup ==
    /\ value > 0 => ~LiveInHeap
    /\ \A n \in 1..Len(waiters) : futState[waiters[n].future] /= "result"

\* permits are free again after one waiter was cancelled before its grant,
\* another was granted and then cancelled, and a holder has released
C20_Witness ==
    /\ value > 0
    /\ \E a, b, c \in Tasks :
          /\ futState[a] = "cancelled" /\ pc[a] = "cancelled"
          /\ futState[b] = "result" /\ pc[b] = "cancelled"
          /\ pc[c] = "released"

====
